---- MODULE Spec2Model ----
(***************************************************************************)
(* Model of the multi-model background-removal service:                    *)
(*   - the three adapters (models/rmbg.py, models/ben2.py,                 *)
(*     models/birefnet.py) behind models/base.py,                          *)
(*   - the model registry (models/registry.py) driven by the FastAPI       *)
(*     handlers of main.py,                                                *)
(*   - the GPU service class of modal_gpu_service.py.                      *)
(*                                                                         *)
(* A tensor is abstracted to its dtype and spatial size, an image to its   *)
(* width, height and colour mode, a network to the dtype of its weights    *)
(* ("none" when the attribute `model` is None).  Whether the opaque        *)
(* network call, a download or a constructor succeeds is an input of the   *)
(* action that performs it.                                                *)
(***************************************************************************)
EXTENDS Integers, Sequences, FiniteSets, TLC

\* ------------------------------------------------------------------ bounds
\* Number of adapter instances ever constructed and kept in one run.
MaxInst == 2
\* Number of remove_background requests in flight at once (main.py).
MaxReq == 1

\* ------------------------------------------------------------- vocabulary
\* registry.register_defaults / BackgroundRemovalService.AVAILABLE_MODELS
Names == {"rmbg2", "ben2", "birefnet"}
\* model names a caller may send: the registered ones and one that is not
ReqNames == Names \cup {"unknown"}
\* PIL image modes of the inputs
Modes == {"RGB", "RGBA", "L", "P"}
\* the inputs: every mode at a size that is a multiple of 32 in both dimensions,
\* and one image whose size is so in neither (and is not square)
Aligned == [w |-> 32, h |-> 32]
Unaligned == [w |-> 33, h |-> 1]
Images == {[w |-> Aligned.w, h |-> Aligned.h, mode |-> md] : md \in Modes}
              \cup {[w |-> Unaligned.w, h |-> Unaligned.h, mode |-> "RGB"]}
NoImage == [w |-> 0, h |-> 0, mode |-> "none"]
\* what a download / weight load can do: succeed, raise before the attribute
\* `model` is assigned, or raise after it was assigned (e.g. in .to(device))
LoadOutcomes == {"ok", "fail_early", "fail_late"}
\* success of the first and of the second call of the opaque network
NetOutcomes == [1..2 -> BOOLEAN]

VARIABLES
    app,             \* which program runs: "main" (main.py), "modal"
                     \*   (modal_gpu_service.py) or "functions" (modal_app.py)
    cuda,            \* torch.cuda.is_available()
    heap,            \* every adapter instance constructed and kept, by identity (index)
    instances,       \* ModelRegistry._instances: name -> instance (0 = absent)
    model_instances, \* BackgroundRemovalService._model_instances: name -> instance (0 = absent)
    reqs,            \* main.py: the remove_background coroutines in flight
    recent,          \* history: per name, the latest resolve with load=True not yet
                     \*   followed by an unload or a reconfiguration of that name
    last,            \* observation: what the step just taken did and returned
    inv,             \* observation: the adapter invocation (__call__) it made
    tensors          \* an RMBG2Model traced tensor by tensor: its flag, how far it
                     \*   got, and the dtype of each parameter and buffer of its network

vars == <<app, cuda, heap, instances, model_instances, reqs, recent, last, inv, tensors>>

\* ---------------------------------------------------------------- adapters

\* BackgroundRemovalModel.__init__ followed by the subclass constructor.
NewInstance(name, device) ==
    [cls |-> name,
     device |-> device,
     model |-> "none",
     half_precision |-> IF name = "ben2" THEN FALSE ELSE device = "cuda",
     refine_enabled |-> FALSE]

\* A load that leaves the weights in float32 whatever the flag
LoadedDtype_float(m) == "fp32"

\* dtype of the weights after a load at the instance's flag
LoadedDtype(m) == IF m.half_precision THEN "fp16" ELSE "fp32"

\* RMBG2Model.load_model: download, birefnet.BiRefNet(), load_state_dict,
\* .to(device), .eval(), .half() when half_precision.  Any failure is re-raised.
RMBG2_load_model(m, lres) ==
    CASE lres = "ok"         -> [m EXCEPT !.model = LoadedDtype(m)]
      [] lres = "fail_early" -> m
      [] OTHER               -> [m EXCEPT !.model = "fp32"]

\* BEN2Model.load_model: from_pretrained, .to(device), .eval(), .half().
BEN2_load_model(m, lres) ==
    CASE lres = "ok"         -> [m EXCEPT !.model = LoadedDtype(m)]
      [] lres = "fail_early" -> m
      [] OTHER               -> [m EXCEPT !.model = "fp32"]

\* BiRefNetModel.load_model: from_pretrained, .to(device), .eval(), .half().
BiRefNet_load_model(m, lres) ==
    CASE lres = "ok"         -> [m EXCEPT !.model = LoadedDtype(m)]
      [] lres = "fail_early" -> m
      [] OTHER               -> [m EXCEPT !.model = "fp32"]

\* dispatch of model.load_model() on the instance's class
load_model(m, lres) ==
    CASE m.cls = "rmbg2" -> RMBG2_load_model(m, lres)
      [] m.cls = "ben2"  -> BEN2_load_model(m, lres)
      [] OTHER           -> BiRefNet_load_model(m, lres)

\* The mode normalisation the three preprocess steps share the text of:
\* RGBA is pasted on a white RGB background, anything else not RGB is converted.
NormalizeMode(mode) ==
    CASE mode = "RGBA" -> "RGB"    \* pasted on a white RGB background
      [] mode = "RGB"  -> mode
      [] OTHER         -> "RGB"    \* image.convert('RGB')

\* A rounding to the nearest multiple of 32 in place of the next one up
Round32(x) == ((x + 16) \div 32) * 32

\* ((x + 31) // 32) * 32
Ceil32(x) == ((x + 31) \div 32) * 32

\* Image.putalpha: the mode of an image after an alpha band was set
PutAlphaMode(mode) ==
    CASE mode \in {"RGBA", "LA", "PA"} -> mode
      [] mode = "L"                    -> "LA"
      [] OTHER                         -> "RGBA"

\* BackgroundRemovalModel.metadata with the subclass' update
supports_refinement(name) == name = "ben2"

metadata(m) ==
    [device |-> m.device,
     half_precision |-> m.half_precision,
     model_loaded |-> m.model # "none",
     supports_refinement |-> supports_refinement(m.cls)]

\* The record every adapter invocation yields in this model:
\*   inst      the instance after the call
\*   ok, out   whether an image was returned, and the image
\*   loads     load_model calls made by the invocation itself
\*   attempts  calls of the network (self.model(...) / self.model.inference)
\*   released  clear_gpu_memory() was called before control returned
\*   refine    refinement setting used by the prediction ("na": not used)
\*   net_w, net_h, in_dtype, w_dtype   input size / dtypes at the last network call
\*   net_mode  mode of the image that the input of the network was made from
\*   resized   the adapter's preprocess resized the image it was given
\*   predicted whether predict() was entered, and if so with self.model
\*             "present" or "absent" (None)
CallRes(inst, ok, out, loads, attempts, released, refine, nw, nh, ind, wd) ==
    [inst |-> inst, ok |-> ok, out |-> out, loads |-> loads,
     attempts |-> attempts, released |-> released, refine |-> refine,
     net_w |-> nw, net_h |-> nh, in_dtype |-> ind, w_dtype |-> wd,
     net_mode |-> "none", resized |-> FALSE, predicted |-> "no"]

\* RMBG2Model.image_size
RMBG2Size == 1024

\* RMBG2Model.preprocess: dtype of the tensor it returns (the size is image_size)
RMBG2_preprocess(m) == IF m.model # "none" THEN m.model ELSE "fp32"

\* RMBG2Model.predict: under half_precision the input is cast to half and the
\* module weights and the float buffers are converted to half, then the network
\* is called once.  [inst, ok, attempts, in_dtype]
RMBG2_predict(m, ind, net) ==
    LET ind2 == IF m.half_precision THEN "fp16" ELSE ind
        m2   == IF m.half_precision THEN [m EXCEPT !.model = "fp16"] ELSE m
    IN [inst |-> m2, ok |-> net[1], attempts |-> 1, in_dtype |-> ind2]

\* RMBG2Model.postprocess: the mask is resized to original_image.size
RMBG2_postprocess(image) ==
    [w |-> image.w, h |-> image.h, mode |-> PutAlphaMode(image.mode)]

\* RMBG2Model.__call__, its first statement: "Ensure model is loaded".
\* [inst, ok, loads]
RMBG2_enter(m, lres) ==
    IF m.model = "none"
    THEN [inst |-> RMBG2_load_model(m, lres), ok |-> lres = "ok", loads |-> 1]
    ELSE [inst |-> m, ok |-> TRUE, loads |-> 0]

\* RMBG2Model.__call__, the rest: preprocess, the cast "right before
\* prediction", predict, postprocess.  Nothing releases accelerator memory.
RMBG2_run(m, image, net) ==
    LET ind0 == RMBG2_preprocess(m)
        ind1 == IF m.half_precision /\ ind0 # "fp16" THEN "fp16" ELSE ind0
        p    == RMBG2_predict(m, ind1, net)
    IN [CallRes(p.inst, p.ok,
                IF p.ok THEN RMBG2_postprocess(image) ELSE NoImage,
                0, p.attempts, FALSE, "na",
                RMBG2Size, RMBG2Size, p.in_dtype, p.inst.model)
           EXCEPT !.net_mode = NormalizeMode(image.mode),
                  !.predicted = IF m.model = "none" THEN "absent" ELSE "present"]

\* BiRefNetModel.preprocess: size of the tensor (the dtype is float32), and
\* whether image.resize was called (new_w != w or new_h != h)
BiRefNet_preprocess(image) ==
    [w |-> Ceil32(image.w), h |-> Ceil32(image.h),
     resized |-> Ceil32(image.w) # image.w \/ Ceil32(image.h) # image.h]

\* BiRefNetModel.predict: one call of the network, failures re-raised
BiRefNet_predict(m, net) ==
    IF m.model = "none"
    THEN [inst |-> m, ok |-> FALSE, attempts |-> 0]
    ELSE [inst |-> m, ok |-> net[1], attempts |-> 1]

\* BiRefNetModel.postprocess: the mask is resized to original_image.size
BiRefNet_postprocess(image) ==
    [w |-> image.w, h |-> image.h, mode |-> PutAlphaMode(image.mode)]

\* BEN2Model.preprocess returns the PIL image itself
BEN2_preprocess(image) == image

\* BEN2Model.predict: on a failure under half_precision the network is put
\* back to float and inference is called once more
BEN2_predict(m, net) ==
    IF m.model = "none"
    THEN [inst |-> m, ok |-> FALSE, attempts |-> 0]
    ELSE IF net[1]
    THEN [inst |-> m, ok |-> TRUE, attempts |-> 1]
    ELSE IF m.half_precision
    THEN [inst |-> [m EXCEPT !.model = "fp32"], ok |-> net[2], attempts |-> 2]
    ELSE [inst |-> m, ok |-> FALSE, attempts |-> 1]

\* BEN2Model.postprocess returns the prediction: BEN_Base.inference yields an
\* RGBA foreground of the size of the image it was given
BEN2_postprocess(image) == [w |-> image.w, h |-> image.h, mode |-> "RGBA"]

\* BackgroundRemovalModel.clear_gpu_memory is called on the success path of
\* BackgroundRemovalModel.__call__ only: the except clause re-raises without it.
clear_gpu_memory(ok) == ok

\* BackgroundRemovalModel.__call__ as BiRefNetModel inherits it
BiRefNet_run(m, image, net) ==
    LET sz  == BiRefNet_preprocess(image)
        ind == IF m.half_precision THEN "fp16" ELSE "fp32"
        p   == BiRefNet_predict(m, net)
    IN [CallRes(p.inst, p.ok,
                IF p.ok THEN BiRefNet_postprocess(image) ELSE NoImage,
                0, p.attempts, clear_gpu_memory(p.ok), "na",
                IF p.attempts > 0 THEN sz.w ELSE 0,
                IF p.attempts > 0 THEN sz.h ELSE 0,
                IF p.attempts > 0 THEN ind ELSE "none",
                IF p.attempts > 0 THEN p.inst.model ELSE "none")
           EXCEPT !.net_mode = IF p.attempts > 0 THEN NormalizeMode(image.mode)
                               ELSE "none",
                  !.resized = sz.resized,
                  !.predicted = IF m.model = "none" THEN "absent" ELSE "present"]

OnOff(b) == IF b THEN "on" ELSE "off"

\* A __call__ that turns refinement on when asked to and never turns it off
BEN2_enter_sticky(m, flag) ==
    [inst |-> [m EXCEPT !.refine_enabled = (m.refine_enabled \/ flag = "on")],
     ok |-> TRUE, loads |-> 0]

\* BEN2Model.__call__, its first statement: the flag is stored on the instance
\* (enable_refinement defaults to False when the caller passes none).
BEN2_enter(m, flag) ==
    [inst |-> [m EXCEPT !.refine_enabled = (flag = "on")], ok |-> TRUE, loads |-> 0]

\* A __call__ whose base class does not cast what preprocess returned, so
\* that predict is reached under half_precision as well
BEN2_run_uncast(m, image, net) ==
    LET p == BEN2_predict(m, net)
    IN [CallRes(p.inst, p.ok,
                IF p.ok THEN BEN2_postprocess(BEN2_preprocess(image)) ELSE NoImage,
                0, p.attempts, clear_gpu_memory(p.ok),
                IF p.attempts > 0 THEN OnOff(m.refine_enabled) ELSE "na",
                IF p.attempts > 0 THEN image.w ELSE 0,
                IF p.attempts > 0 THEN image.h ELSE 0,
                IF p.attempts > 0 THEN "image" ELSE "none",
                IF p.attempts > 0 THEN p.inst.model ELSE "none")
           EXCEPT !.net_mode = IF p.attempts > 0 THEN BEN2_preprocess(image).mode
                               ELSE "none",
                  !.predicted = IF m.model = "none" THEN "absent" ELSE "present"]

\* BEN2Model.__call__, the rest: BackgroundRemovalModel.__call__.
\* Under half_precision the base class calls .half() on what preprocess
\* returned, which for BEN2 is a PIL image: the call raises before predict.
BEN2_run(m, image, net) ==
    IF m.half_precision
       THEN CallRes(m, FALSE, NoImage, 0, 0, clear_gpu_memory(FALSE), "na", 0, 0, "none", "none")
       ELSE LET p == BEN2_predict(m, net)
            IN [CallRes(p.inst, p.ok,
                        IF p.ok THEN BEN2_postprocess(BEN2_preprocess(image)) ELSE NoImage,
                        0, p.attempts, clear_gpu_memory(p.ok),
                        IF p.attempts > 0 THEN OnOff(m.refine_enabled) ELSE "na",
                        IF p.attempts > 0 THEN image.w ELSE 0,
                        IF p.attempts > 0 THEN image.h ELSE 0,
                        IF p.attempts > 0 THEN "image" ELSE "none",
                        IF p.attempts > 0 THEN p.inst.model ELSE "none")
                   EXCEPT !.net_mode = IF p.attempts > 0 THEN BEN2_preprocess(image).mode
                                       ELSE "none",
                          !.predicted = IF m.model = "none" THEN "absent" ELSE "present"]

\* bg_model(image, ...) up to the point where the network is about to be used.
\* `flag` is the enable_refinement argument: "on", "off", or "absent" when the
\* caller passes none.
Enter(m, flag, lres) ==
    CASE m.cls = "rmbg2" -> RMBG2_enter(m, lres)
      [] m.cls = "ben2"  -> BEN2_enter(m, flag)
      [] OTHER           -> [inst |-> m, ok |-> TRUE, loads |-> 0]

\* bg_model(image, ...) from there to its return (or its exception)
Run(m, image, net) ==
    CASE m.cls = "rmbg2" -> RMBG2_run(m, image, net)
      [] m.cls = "ben2"  -> BEN2_run(m, image, net)
      [] OTHER           -> BiRefNet_run(m, image, net)

\* bg_model(image, ...) as one call
Invoke(m, image, flag, lres, net) ==
    LET e == Enter(m, flag, lres)
    IN IF ~e.ok
       THEN CallRes(e.inst, FALSE, NoImage, e.loads, 0, FALSE, "na", 0, 0, "none", "none")
       ELSE [Run(e.inst, image, net) EXCEPT !.loads = e.loads]

\* ------------------------------------------ RMBG2Model, tensor by tensor

\* The tensors of a network: kind is "weight" (a module's .weight), "bias" (any
\* other parameter) or "buffer"; made is the dtype the architecture creates
\* it with, dtype the one it has now.
Tensor(kind, made) == [kind |-> kind, made |-> made, dtype |-> made]

Floating == {"float32", "float16"}

\* birefnet.BiRefNet(): float32 parameters, and the buffers of the
\* architecture, which is not part of this repository: any of these may occur
ParamTensors == {Tensor("weight", "float32"), Tensor("bias", "float32")}
BufferTensors == {Tensor("buffer", d) : d \in {"float32", "int64", "int32", "bool"}}
Networks == {ParamTensors \cup b : b \in SUBSET BufferTensors}

NoTensors == [phase |-> "none", half |-> FALSE, net |-> {}]

\* A conversion that casts every tensor to half, integers and booleans included
HalfEverything(net) == {[t EXCEPT !.dtype = "float16"] : t \in net}

\* nn.Module.half(): every floating point parameter and buffer is cast
ModuleHalf(net) ==
    {IF t.dtype \in Floating THEN [t EXCEPT !.dtype = "float16"] ELSE t : t \in net}

\* convert_all_tensors_to_half of RMBG2Model.load_model: float32 parameters
\* and float32 buffers are cast
convert_all_tensors_to_half(net) ==
    {IF t.dtype = "float32" THEN [t EXCEPT !.dtype = "float16"] ELSE t : t \in net}

\* RMBG2Model.load_model on the network `arch` as constructed: load_state_dict
\* copies values into the existing tensors; under half_precision the module
\* is cast with .half() and swept once more.
RMBG2_load_tensors(arch, half) ==
    IF half THEN convert_all_tensors_to_half(ModuleHalf(arch)) ELSE arch

\* RMBG2Model.predict, the sweep before self.model(image): a module weight
\* that is not float16 is cast; a buffer whose dtype is none of int64, int32,
\* bool and is not float16 is cast.
RMBG2_predict_tensors(net, half) ==
    IF ~half THEN net
    ELSE {IF t.kind = "weight" /\ t.dtype # "float16"
          THEN [t EXCEPT !.dtype = "float16"]
          ELSE IF t.kind = "buffer" /\ t.dtype \notin {"int64", "int32", "bool"}
                  /\ t.dtype # "float16"
          THEN [t EXCEPT !.dtype = "float16"]
          ELSE t : t \in net}

\* RMBG2Model(device), with the flag the constructor sets (CUDA) or the one
\* BackgroundRemovalService._get_model sets after it
TConstruct(half) ==
    /\ tensors.phase = "none"
    /\ tensors' = [phase |-> "new", half |-> half, net |-> {}]
    /\ UNCHANGED <<app, cuda, heap, instances, model_instances, reqs, recent, last, inv>>

\* load_model(), by the resolve or by __call__ on entry
TLoad(arch) ==
    /\ tensors.phase = "new"
    /\ tensors' = [tensors EXCEPT !.phase = "loaded",
                                  !.net = RMBG2_load_tensors(arch, tensors.half)]
    /\ UNCHANGED <<app, cuda, heap, instances, model_instances, reqs, recent, last, inv>>

\* predict(), up to the call of the network
TPredict ==
    /\ tensors.phase = "loaded"
    /\ tensors' = [tensors EXCEPT !.phase = "called",
                                  !.net = RMBG2_predict_tensors(tensors.net, tensors.half)]
    /\ UNCHANGED <<app, cuda, heap, instances, model_instances, reqs, recent, last, inv>>

\* the network returns
TReturn ==
    /\ tensors.phase = "called"
    /\ tensors' = [tensors EXCEPT !.phase = "loaded"]
    /\ UNCHANGED <<app, cuda, heap, instances, model_instances, reqs, recent, last, inv>>

\* unload_model: self.model = None; the next __call__ loads again
TUnload ==
    /\ tensors.phase = "loaded"
    /\ tensors' = [tensors EXCEPT !.phase = "new", !.net = {}]
    /\ UNCHANGED <<app, cuda, heap, instances, model_instances, reqs, recent, last, inv>>

\* ------------------------------------------------------------ observations

\* what a step that made no adapter invocation leaves in `inv`
NoInv ==
    [name |-> "none", inst |-> 0, flag |-> "absent", half |-> FALSE, refine0 |-> FALSE,
     image |-> NoImage, res |-> CallRes(0, FALSE, NoImage, 0, 0, FALSE, "na", 0, 0, "none", "none")]

\* the invocation of instance i (as it was at entry, m0) on `image`
MkInv(i, m0, flag, image, res) ==
    [name |-> m0.cls, inst |-> i, flag |-> flag, half |-> m0.half_precision,
     refine0 |-> m0.refine_enabled,
     image |-> image, res |-> [res EXCEPT !.inst = 0]]

\* what is known of the latest resolve of a name
NoRecent == [seen |-> FALSE, ret |-> 0, half |-> FALSE]

\* what the step just taken did (cleared once the caller has its response):
\*   op        the handler or method (and, for remove_background, its part)
\*   name      the model name it was given
\*   resolved  it called get_model / _get_model; load, cfg: the arguments
\*   ret       the instance that call returned (0 = None)
\*   ret_loaded  metadata["model_loaded"] of that instance as it was returned
\*   ctor, loads   constructor and load_model calls made by that call
\*   err       the exception that call caught: "ctor", "load" or "none"
\*   emptied   torch.cuda.empty_cache() was called by an unload
\*   done      the handler returned; outcome: what it returned
\*   file      the upload: "empty", "bad" (undecodable) or "image"
\*   rq_ctor, rq_loads  constructor / load_model calls of the whole request
\*   image, result      the image submitted and the image returned
\*   prior     `recent` of the name before the step
\*   cached    the entry of the name in the instance mapping before the step
\*   listing   what a list call returned
\*   raised    the operation ended by raising an exception to its caller
\* the metadata entry of a name that has no instance
NoMetadata == [device |-> "none", half_precision |-> FALSE,
               model_loaded |-> FALSE, supports_refinement |-> FALSE]

\* the listing of an observation that is not one of a list call
NoListing ==
    [n \in Names |-> [loaded |-> FALSE, absent |-> TRUE, metadata |-> NoMetadata]]

NoObs ==
    [op |-> "none", name |-> "none", resolved |-> FALSE, load |-> FALSE,
     cfg |-> "na", ret |-> 0, ret_loaded |-> FALSE, ctor |-> 0, loads |-> 0,
     err |-> "none", emptied |-> FALSE,
     prior |-> NoRecent, cached |-> 0,
     done |-> TRUE, outcome |-> "none", file |-> "none",
     rq_ctor |-> 0, rq_loads |-> 0, image |-> NoImage, result |-> NoImage,
     listing |-> NoListing, raised |-> FALSE]

Obs(op, name) == [NoObs EXCEPT !.op = op, !.name = name]

\* the half_precision entry of a configuration: "half" (True), "full" (False)
\* or "default" (no entry / None), which default_config resolves to False;
\* "na" where the caller has no such argument (models/registry.py)
FinalHalf(cfg) == cfg = "half"

\* the fields of an observation that a resolve result g fills
Resolved(o, load, cfg, g) ==
    [o EXCEPT !.resolved = TRUE, !.load = load, !.cfg = cfg, !.ret = g.ret,
              !.ret_loaded = IF g.ret = 0 THEN FALSE
                             ELSE metadata(g.heap[g.ret]).model_loaded,
              !.ctor = g.ctor, !.loads = g.loads, !.err = g.err,
              !.prior = IF o.name \in Names THEN recent[o.name] ELSE NoRecent,
              !.cached = IF o.name \notin Names THEN 0
                         ELSE IF app = "main" THEN instances[o.name]
                         ELSE model_instances[o.name]]

\* `recent` after a resolve of `name`; dropped: it discarded the cached instance
AfterResolve(name, load, cfg, ret, dropped) ==
    IF name \notin Names THEN recent
    ELSE IF load THEN [recent EXCEPT ![name] =
                          [seen |-> TRUE, ret |-> ret, half |-> FinalHalf(cfg)]]
    ELSE IF dropped THEN [recent EXCEPT ![name] = NoRecent]
    ELSE recent

\* the caller of the step before has its response
Ready == last = NoObs

\* ---------------------------------------------------------------- registry

Device == IF cuda THEN "cuda" ELSE "cpu"

\* An instance nothing refers to any more (CPython frees it at once)
Freed == [cls |-> "freed", device |-> "none", model |-> "none",
          half_precision |-> FALSE, refine_enabled |-> FALSE]

\* the instances the two mappings and the coroutines in flight refer to
Roots(insts, minsts, rq) ==
    {insts[n] : n \in Names} \cup {minsts[n] : n \in Names}
        \cup {rq[r].bg : r \in DOMAIN rq}

\* the heap once every instance without a referent is freed
Collect(hp, insts, minsts, rq) ==
    [i \in 1..Len(hp) |-> IF i \in Roots(insts, minsts, rq) THEN hp[i] ELSE Freed]

\* A registry that does not look into its cache: every resolve of a registered
\* name constructs (and loads) a new instance.
get_model_uncached(insts, hp, name, load, cok, lres) ==
    IF name \notin Names \/ ~cok
    THEN [insts |-> insts, heap |-> hp, ret |-> 0,
          ctor |-> IF name \in Names THEN 1 ELSE 0, loads |-> 0,
          err |-> IF name \in Names THEN "ctor" ELSE "none"]
    ELSE IF load /\ lres # "ok"
    THEN [insts |-> insts, heap |-> hp, ret |-> 0, ctor |-> 1, loads |-> 1,
          err |-> "load"]
    ELSE [insts |-> [insts EXCEPT ![name] = Len(hp) + 1],
          heap |-> Append(hp, IF load THEN load_model(NewInstance(name, Device), lres)
                              ELSE NewInstance(name, Device)),
          ret |-> Len(hp) + 1, ctor |-> 1, loads |-> IF load THEN 1 ELSE 0,
          err |-> "none"]

\* A registry that serves the default model under a name it does not know.
get_model_fallback(insts, hp, name, load, cok, lres) ==
    LET n == IF name \in Names THEN name ELSE "rmbg2"
    IN IF insts[n] # 0
       THEN [insts |-> insts, heap |-> hp, ret |-> insts[n], ctor |-> 0, loads |-> 0,
             err |-> "none"]
       ELSE IF ~cok \/ (load /\ lres # "ok")
       THEN [insts |-> insts, heap |-> hp, ret |-> 0, ctor |-> 1,
             loads |-> IF cok /\ load THEN 1 ELSE 0,
             err |-> IF cok THEN "load" ELSE "ctor"]
       ELSE [insts |-> [insts EXCEPT ![n] = Len(hp) + 1],
             heap |-> Append(hp, IF load THEN load_model(NewInstance(n, Device), lres)
                                 ELSE NewInstance(n, Device)),
             ret |-> Len(hp) + 1, ctor |-> 1, loads |-> IF load THEN 1 ELSE 0,
             err |-> "none"]

\* A registry that stores the new instance in its mapping before it loads it:
\* an instance whose load raised stays cached.
get_model_cache_first(insts, hp, name, load, cok, lres) ==
    IF name \notin Names \/ (name \in Names /\ insts[name] # 0)
    THEN [insts |-> insts, heap |-> hp,
          ret |-> IF name \in Names THEN insts[name] ELSE 0,
          ctor |-> 0, loads |-> 0, err |-> "none"]
    ELSE IF ~cok
    THEN [insts |-> insts, heap |-> hp, ret |-> 0, ctor |-> 1, loads |-> 0,
          err |-> "ctor"]
    ELSE [insts |-> [insts EXCEPT ![name] = Len(hp) + 1],
          heap |-> Append(hp, IF load THEN load_model(NewInstance(name, Device), lres)
                              ELSE NewInstance(name, Device)),
          ret |-> IF load /\ lres # "ok" THEN 0 ELSE Len(hp) + 1,
          ctor |-> 1, loads |-> IF load THEN 1 ELSE 0,
          err |-> IF load /\ lres # "ok" THEN "load" ELSE "none"]

\* ModelRegistry.get_model on the mapping `insts` and the heap `hp`.
\* cok: the constructor returns; lres: what load_model does.
\* [insts, heap, ret, ctor, loads, err]; err: the exception the except clause
\* caught, raised by the constructor ("ctor") or by load_model ("load")
get_model(insts, hp, name, load, cok, lres) ==
    IF name \notin Names
    THEN [insts |-> insts, heap |-> hp, ret |-> 0, ctor |-> 0, loads |-> 0,
          err |-> "none"]
    ELSE IF insts[name] = 0
    THEN IF ~cok
         THEN [insts |-> insts, heap |-> hp, ret |-> 0, ctor |-> 1, loads |-> 0,
               err |-> "ctor"]
         ELSE LET m0 == NewInstance(name, Device)
                  m1 == IF load THEN load_model(m0, lres) ELSE m0
                  nl == IF load THEN 1 ELSE 0
              IN IF load /\ lres # "ok"
                 THEN [insts |-> insts, heap |-> hp, ret |-> 0, ctor |-> 1, loads |-> nl,
                       err |-> "load"]
                 ELSE [insts |-> [insts EXCEPT ![name] = Len(hp) + 1],
                       heap |-> Append(hp, m1),
                       ret |-> Len(hp) + 1, ctor |-> 1, loads |-> nl, err |-> "none"]
    ELSE [insts |-> insts, heap |-> hp, ret |-> insts[name], ctor |-> 0, loads |-> 0,
          err |-> "none"]

\* A registry whose unload drops every cached instance, whatever the name.
unload_model_all(insts, hp, name) ==
    [insts |-> [n \in Names |-> 0],
     heap |-> [i \in 1..Len(hp) |->
                  IF \E n \in Names : insts[n] = i THEN [hp[i] EXCEPT !.model = "none"]
                  ELSE hp[i]],
     emptied |-> cuda]

\* An unload that clears the weights but leaves the entry in the mapping
unload_model_keep_entry(insts, hp, name) ==
    IF name \in Names /\ insts[name] # 0
    THEN [insts |-> insts,
          heap |-> [hp EXCEPT ![insts[name]].model = "none"],
          emptied |-> cuda]
    ELSE [insts |-> insts, heap |-> hp, emptied |-> FALSE]

\* ModelRegistry.unload_model.  [insts, heap, emptied]
unload_model(insts, hp, name) ==
    IF name \in Names /\ insts[name] # 0
    THEN [insts |-> [insts EXCEPT ![name] = 0],
          heap |-> [hp EXCEPT ![insts[name]].model = "none"],
          emptied |-> cuda]
    ELSE [insts |-> insts, heap |-> hp, emptied |-> FALSE]

\* the registered names in their order of registration
NameSeq == <<"rmbg2", "ben2", "birefnet">>

\* The entries that a list comprehension builds from NameSeq[k] on: `loaded`
\* is `name in instances`; `metadata` is that of resolve(name), called only
\* for a name that is in the mapping, else None (`absent`).  resolve is
\* get_model(name, load) of the registry, or _get_model(name, load) of
\* modal_app.py, which is the same routine.  [models, insts, heap]
RECURSIVE ListFrom(_, _, _, _, _)
ListFrom(k, insts, hp, acc, load) ==
    IF k > Len(NameSeq)
    THEN [models |-> acc, insts |-> insts, heap |-> hp]
    ELSE LET n == NameSeq[k]
             g == IF insts[n] # 0 THEN get_model(insts, hp, n, load, TRUE, "ok")
                  ELSE [insts |-> insts, heap |-> hp, ret |-> 0]
             e == [loaded |-> insts[n] # 0,
                   absent |-> insts[n] = 0,
                   metadata |-> IF g.ret # 0 THEN metadata(g.heap[g.ret])
                                ELSE NoMetadata]
         IN ListFrom(k + 1, g.insts, g.heap, [acc EXCEPT ![n] = e], load)

\* ModelRegistry.get_available_models: name -> {loaded, metadata}, with
\* get_model(name, load=False) for each cached name (no constructor runs for
\* a name that is cached).  [models, insts, heap]
get_available_models(insts, hp) == ListFrom(1, insts, hp, NoListing, FALSE)

\* ------------------------------------------------------------------ main.py

IdleReq == [pc |-> "idle", model |-> "none", bg |-> 0, flag |-> "absent", made |-> 0]

\* a remove_background coroutine is inside the synchronous bg_model(...) call:
\* the event loop runs nothing else until it returns
Busy == \E r \in 1..MaxReq : reqs[r].pc = "infer"

\* the slot a new coroutine takes
FreeSlot(r) == reqs[r].pc = "idle" /\ \A q \in 1..(r - 1) : reqs[q].pc # "idle"

\* main.py "Convert to RGB if not already"
MainConvert(image) ==
    IF image.mode \notin {"RGB", "RGBA"} THEN [image EXCEPT !.mode = "RGB"] ELSE image

\* remove_background, from its entry to `await file.read()`:
\* content-type check, then registry.get_model(model).
RbStart(r, name, flag, ctype_ok, cok, lres) ==
    /\ Ready /\ app = "main" /\ ~Busy /\ FreeSlot(r)
    /\ LET g == get_model(instances, heap, name, TRUE, cok, lres)
           o == [Resolved(Obs("remove_background", name), TRUE, "na", g)
                   EXCEPT !.rq_ctor = g.ctor, !.rq_loads = g.loads]
       IN IF ~ctype_ok
          THEN /\ last' = [Obs("remove_background", name) EXCEPT !.outcome = "bad_content_type"]
               /\ UNCHANGED <<heap, instances, reqs>>
          ELSE /\ Len(g.heap) <= MaxInst
               /\ instances' = g.insts
               /\ reqs' = IF g.ret = 0
                          THEN reqs
                          ELSE [reqs EXCEPT ![r] =
                                  [pc |-> "read", model |-> name, bg |-> g.ret,
                                   flag |-> flag, made |-> g.ctor]]
               /\ heap' = Collect(g.heap, instances', model_instances, reqs')
               /\ last' = IF g.ret = 0
                          THEN [o EXCEPT !.outcome = "model_not_available"]
                          ELSE [o EXCEPT !.done = FALSE]
    /\ inv' = NoInv
    /\ recent' = IF ~ctype_ok THEN recent
                 ELSE AfterResolve(name, TRUE, "na",
                        get_model(instances, heap, name, TRUE, cok, lres).ret, FALSE)
    /\ UNCHANGED <<app, tensors, cuda, model_instances>>

\* remove_background, resumed after `await file.read()`: the empty-file check,
\* Image.open, the mode conversion, and the entry into bg_model(image, ...).
\* (made: the constructor call, and with it the load_model call, of RbStart)
RbRead(r, file, lres) ==
    /\ Ready /\ app = "main" /\ ~Busy /\ reqs[r].pc = "read"
    /\ LET q  == reqs[r]
           o  == [Obs("remove_background", q.model) EXCEPT
                     !.file = file, !.rq_ctor = q.made, !.rq_loads = q.made]
           e  == Enter(heap[q.bg], q.flag, lres)
       IN IF file = "empty"
          THEN /\ last' = [o EXCEPT !.outcome = "empty_file"]
               /\ reqs' = [reqs EXCEPT ![r] = IdleReq]
               /\ inv' = NoInv
               /\ heap' = Collect(heap, instances, model_instances, reqs')
          ELSE IF file = "bad"
          THEN /\ last' = [o EXCEPT !.outcome = "invalid_image"]
               /\ reqs' = [reqs EXCEPT ![r] = IdleReq]
               /\ inv' = NoInv
               /\ heap' = Collect(heap, instances, model_instances, reqs')
          ELSE /\ reqs' = [reqs EXCEPT ![r] =
                              IF e.ok THEN [q EXCEPT !.pc = "infer"] ELSE IdleReq]
               /\ heap' = Collect([heap EXCEPT ![q.bg] = e.inst],
                                  instances, model_instances, reqs')
               /\ IF e.ok
                  THEN /\ last' = [o EXCEPT !.done = FALSE,
                                            !.rq_loads = q.made + e.loads]
                       /\ inv' = NoInv
                  ELSE /\ last' = [o EXCEPT !.outcome = "error",
                                            !.rq_loads = q.made + e.loads]
                       /\ inv' = MkInv(q.bg, heap[q.bg], q.flag, NoImage,
                                       CallRes(0, FALSE, NoImage, e.loads, 0, FALSE,
                                               "na", 0, 0, "none", "none"))
    /\ UNCHANGED <<app, tensors, cuda, instances, model_instances, recent>>

\* remove_background, the rest of bg_model(image, ...) and the response:
\* the PNG of the result, or the 500 of the except clause.  The size and the
\* mode of the image decoded before take no part in anything up to here, and
\* are drawn where they are first used.
RbInfer(r, img, net) ==
    /\ Ready /\ app = "main" /\ reqs[r].pc = "infer"
    /\ LET q   == reqs[r]
           im  == MainConvert(img)
           res == Run(heap[q.bg], im, net)
       IN /\ reqs' = [reqs EXCEPT ![r] = IdleReq]
          /\ heap' = Collect([heap EXCEPT ![q.bg] = res.inst],
                             instances, model_instances, reqs')
          /\ inv' = MkInv(q.bg, heap[q.bg], q.flag, im, res)
          /\ last' = [Obs("remove_background", q.model) EXCEPT
                         !.file = "image", !.rq_ctor = q.made, !.rq_loads = q.made,
                         !.outcome = IF res.ok THEN "ok" ELSE "error",
                         !.image = img, !.result = res.out]
    /\ UNCHANGED <<app, tensors, cuda, instances, model_instances, recent>>

\* GET /models
ListModels ==
    /\ Ready /\ app = "main" /\ ~Busy
    /\ \E g \in {get_available_models(instances, heap)} :
          /\ Len(g.heap) <= MaxInst
          /\ instances' = g.insts
          /\ heap' = Collect(g.heap, instances', model_instances, reqs)
          /\ last' = [Obs("list_models", "none") EXCEPT
                         !.outcome = "ok", !.listing = g.models]
    /\ inv' = NoInv
    /\ UNCHANGED <<app, tensors, cuda, model_instances, reqs, recent>>

\* POST /models/{model_name}/load
LoadModel(name, cok, lres) ==
    /\ Ready /\ app = "main" /\ ~Busy
    /\ LET g == get_model(instances, heap, name, TRUE, cok, lres)
       IN /\ Len(g.heap) <= MaxInst
          /\ instances' = g.insts
          /\ heap' = Collect(g.heap, instances', model_instances, reqs)
          /\ last' = [Resolved(Obs("load_model", name), TRUE, "na", g) EXCEPT
                         !.outcome = IF g.ret = 0 THEN "not_found" ELSE "ok"]
    /\ inv' = NoInv
    /\ recent' = AfterResolve(name, TRUE, "na",
                              get_model(instances, heap, name, TRUE, cok, lres).ret, FALSE)
    /\ UNCHANGED <<app, tensors, cuda, model_instances, reqs>>

\* POST /models/{model_name}/unload
UnloadModel(name) ==
    /\ Ready /\ app = "main" /\ ~Busy
    /\ LET u == unload_model(instances, heap, name)
       IN /\ instances' = u.insts
          /\ heap' = Collect(u.heap, instances', model_instances, reqs)
          /\ last' = [Obs("unload_model", name) EXCEPT
                         !.outcome = "ok", !.emptied = u.emptied,
                         !.cached = IF name \in Names THEN instances[name] ELSE 0]
    /\ inv' = NoInv
    /\ recent' = IF name \in Names THEN [recent EXCEPT ![name] = NoRecent] ELSE recent
    /\ UNCHANGED <<app, tensors, cuda, model_instances, reqs>>

\* GET /models/{model_name}/info
GetModelInfo(name, cok, lres) ==
    /\ Ready /\ app = "main" /\ ~Busy
    /\ LET g == get_model(instances, heap, name, TRUE, cok, lres)
       IN /\ Len(g.heap) <= MaxInst
          /\ instances' = g.insts
          /\ heap' = Collect(g.heap, instances', model_instances, reqs)
          /\ last' = [Resolved(Obs("get_model_info", name), TRUE, "na", g) EXCEPT
                         !.outcome = IF g.ret = 0 THEN "not_found" ELSE "ok"]
    /\ inv' = NoInv
    /\ recent' = AfterResolve(name, TRUE, "na",
                              get_model(instances, heap, name, TRUE, cok, lres).ret, FALSE)
    /\ UNCHANGED <<app, tensors, cuda, model_instances, reqs>>

\* GET /health
Health ==
    /\ Ready /\ app = "main" /\ ~Busy
    /\ \E g \in {get_available_models(instances, heap)} :
          /\ Len(g.heap) <= MaxInst
          /\ instances' = g.insts
          /\ heap' = Collect(g.heap, instances', model_instances, reqs)
          /\ last' = [Obs("health", "none") EXCEPT
                         !.outcome = "ok", !.listing = g.models]
    /\ inv' = NoInv
    /\ UNCHANGED <<app, tensors, cuda, model_instances, reqs, recent>>

\* --------------------------------------------------- modal_gpu_service.py

\* A service that applies a differing half_precision to the cached instance
\* itself instead of replacing the instance.
svc_get_model_in_place(minsts, hp, name, cfg, load, cok, lres) ==
    IF name \notin Names
    THEN [insts |-> minsts, heap |-> hp, ret |-> 0, ctor |-> 0, loads |-> 0, dropped |-> 0,
          err |-> "none"]
    ELSE IF minsts[name] # 0
    THEN [insts |-> minsts,
          heap |-> [hp EXCEPT ![minsts[name]].half_precision = FinalHalf(cfg)],
          ret |-> minsts[name], ctor |-> 0, loads |-> 0, dropped |-> 0, err |-> "none"]
    ELSE IF ~cok \/ (load /\ lres # "ok")
    THEN [insts |-> minsts, heap |-> hp, ret |-> 0, ctor |-> 1,
          loads |-> IF cok /\ load THEN 1 ELSE 0, dropped |-> 0,
          err |-> IF cok THEN "load" ELSE "ctor"]
    ELSE [insts |-> [minsts EXCEPT ![name] = Len(hp) + 1],
          heap |-> Append(hp,
                     IF load
                     THEN load_model([NewInstance(name, Device) EXCEPT
                                         !.half_precision = FinalHalf(cfg)], lres)
                     ELSE [NewInstance(name, Device) EXCEPT
                              !.half_precision = FinalHalf(cfg)]),
          ret |-> Len(hp) + 1, ctor |-> 1, loads |-> IF load THEN 1 ELSE 0,
          dropped |-> 0, err |-> "none"]

\* BackgroundRemovalService._get_model on the mapping `minsts` and heap `hp`.
\* cok: the import and the constructor succeed; lres: what load_model does.
\* [insts, heap, ret, ctor, loads, dropped, err]; dropped: the instance deleted from
\* the mapping because its half_precision differs (0: none).
svc_get_model(minsts, hp, name, cfg, load, cok, lres) ==
    IF name \notin Names
    THEN [insts |-> minsts, heap |-> hp, ret |-> 0, ctor |-> 0, loads |-> 0, dropped |-> 0,
          err |-> "none"]
    ELSE LET cur  == minsts[name]
             drop == cur # 0 /\ hp[cur].half_precision # FinalHalf(cfg)
             ins1 == IF drop THEN [minsts EXCEPT ![name] = 0] ELSE minsts
             d    == IF drop THEN cur ELSE 0
         IN IF ins1[name] # 0
            THEN [insts |-> ins1, heap |-> hp, ret |-> ins1[name],
                  ctor |-> 0, loads |-> 0, dropped |-> d, err |-> "none"]
            ELSE IF ~cok
            THEN [insts |-> ins1, heap |-> hp, ret |-> 0,
                  ctor |-> 1, loads |-> 0, dropped |-> d, err |-> "ctor"]
            ELSE LET m0 == [NewInstance(name, Device) EXCEPT
                               !.half_precision = FinalHalf(cfg)]
                     m1 == IF load THEN load_model(m0, lres) ELSE m0
                     nl == IF load THEN 1 ELSE 0
                 IN IF load /\ lres # "ok"
                    THEN [insts |-> ins1, heap |-> hp, ret |-> 0,
                          ctor |-> 1, loads |-> nl, dropped |-> d, err |-> "load"]
                    ELSE [insts |-> [ins1 EXCEPT ![name] = Len(hp) + 1],
                          heap |-> Append(hp, m1), ret |-> Len(hp) + 1,
                          ctor |-> 1, loads |-> nl, dropped |-> d, err |-> "none"]

\* BackgroundRemovalService._preprocess_image
svc_preprocess_image(image, name) ==
    LET im == IF name = "birefnet"
              THEN [image EXCEPT !.w = Ceil32(image.w), !.h = Ceil32(image.h)]
              ELSE image
    IN [im EXCEPT !.mode = NormalizeMode(im.mode)]

\* process_image: 'enable_refinement' in bg_model.__call__.__code__.co_varnames.
\* RMBG2Model and BEN2Model define __call__ with that parameter; BiRefNetModel
\* inherits __call__(self, image, **kwargs).
AcceptsRefinementArg(name) == name \in {"rmbg2", "ben2"}

\* BackgroundRemovalService.process_image.  Its except clause logs and
\* re-raises: every failure reaches the caller as the exception itself.
SvcProcessImage(name, file, img, flag, cfg, cok, lres, net) ==
    /\ Ready /\ app = "modal"
    /\ \E g \in {svc_get_model(model_instances, heap, name, cfg, TRUE, cok, lres)},
          im \in {svc_preprocess_image(img, name)},
          fl \in {IF AcceptsRefinementArg(name) THEN flag ELSE "absent"} :
         LET o  == [Obs("process_image", name) EXCEPT !.file = file]
             og == [Resolved(o, TRUE, cfg, g) EXCEPT
                       !.rq_ctor = g.ctor, !.rq_loads = g.loads, !.image = img]
         IN IF file # "image"
            THEN /\ last' = [o EXCEPT !.outcome = "invalid_image", !.raised = TRUE]
                 /\ inv' = NoInv
                 /\ UNCHANGED <<heap, model_instances, recent>>
            ELSE /\ Len(g.heap) <= MaxInst
                 /\ model_instances' = g.insts
                 /\ recent' = AfterResolve(name, TRUE, cfg, g.ret, g.dropped # 0)
                 /\ IF g.ret = 0
                    THEN /\ last' = [og EXCEPT !.outcome = "model_not_available",
                                             !.raised = TRUE]
                         /\ inv' = NoInv
                         /\ heap' = Collect(g.heap, instances, model_instances', reqs)
                    ELSE \E res \in {Invoke(g.heap[g.ret], im, fl, lres, net)} :
                            /\ heap' = Collect([g.heap EXCEPT ![g.ret] = res.inst],
                                               instances, model_instances', reqs)
                            /\ inv' = MkInv(g.ret, g.heap[g.ret], fl, im, res)
                            /\ last' = [og EXCEPT
                                          !.rq_loads = g.loads + res.loads,
                                          !.outcome = IF res.ok THEN "ok" ELSE "error",
                                          !.raised = ~res.ok,
                                          !.result = res.out]
    /\ UNCHANGED <<app, tensors, cuda, instances, reqs>>

\* BackgroundRemovalService.is_model_loaded
SvcIsModelLoaded(name) ==
    /\ Ready /\ app = "modal"
    /\ last' = [Obs("is_model_loaded", name) EXCEPT
                   !.outcome = IF name \in Names /\ model_instances[name] # 0
                               THEN "true" ELSE "false"]
    /\ inv' = NoInv
    /\ UNCHANGED <<app, tensors, cuda, heap, instances, model_instances, reqs, recent>>

\* BackgroundRemovalService.get_model_metadata
SvcGetModelMetadata(name, cok) ==
    /\ Ready /\ app = "modal"
    /\ \E g \in {svc_get_model(model_instances, heap, name, "default", FALSE, cok, "ok")} :
          /\ Len(g.heap) <= MaxInst
          /\ model_instances' = g.insts
          /\ recent' = AfterResolve(name, FALSE, "default", g.ret, g.dropped # 0)
          /\ heap' = Collect(g.heap, instances, model_instances', reqs)
          /\ last' = IF name \notin Names
                     THEN [Obs("get_model_metadata", name) EXCEPT
                              !.outcome = "model_not_available"]
                     ELSE [Resolved(Obs("get_model_metadata", name), FALSE, "default", g)
                             EXCEPT !.outcome = IF g.ret = 0 THEN "failed_to_initialize"
                                                 ELSE "ok"]
    /\ inv' = NoInv
    /\ UNCHANGED <<app, tensors, cuda, instances, reqs>>

\* BackgroundRemovalService.load_model: True whenever the name is known
SvcLoadModel(name, cok, lres) ==
    /\ Ready /\ app = "modal"
    /\ \E g \in {svc_get_model(model_instances, heap, name, "default", TRUE, cok, lres)} :
          /\ Len(g.heap) <= MaxInst
          /\ model_instances' = g.insts
          /\ recent' = AfterResolve(name, TRUE, "default", g.ret, g.dropped # 0)
          /\ heap' = Collect(g.heap, instances, model_instances', reqs)
          /\ last' = IF name \notin Names
                     THEN [Obs("svc_load_model", name) EXCEPT !.outcome = "false"]
                     ELSE [Resolved(Obs("svc_load_model", name), TRUE, "default", g)
                             EXCEPT !.outcome = "true"]
    /\ inv' = NoInv
    /\ UNCHANGED <<app, tensors, cuda, instances, reqs>>

\* A listing that reports a name as loaded only when its cached instance holds
\* weights.
svc_list_models_by_weights(minsts, hp) ==
    [n \in Names |->
        [loaded |-> minsts[n] # 0 /\ hp[minsts[n]].model # "none",
         absent |-> minsts[n] = 0 \/ hp[minsts[n]].model = "none",
         metadata |-> IF minsts[n] # 0 /\ hp[minsts[n]].model # "none"
                      THEN metadata(hp[minsts[n]]) ELSE NoMetadata]]

\* BackgroundRemovalService.list_models: name -> {loaded, metadata}
svc_list_models(minsts, hp) ==
    [n \in Names |->
        [loaded |-> minsts[n] # 0,
         absent |-> minsts[n] = 0,
         metadata |-> IF minsts[n] # 0 THEN metadata(hp[minsts[n]]) ELSE NoMetadata]]

SvcListModels ==
    /\ Ready /\ app = "modal"
    /\ last' = [Obs("svc_list_models", "none") EXCEPT
                   !.outcome = "ok", !.listing = svc_list_models(model_instances, heap)]
    /\ inv' = NoInv
    /\ UNCHANGED <<app, tensors, cuda, heap, instances, model_instances, reqs, recent>>

\* BackgroundRemovalService.configure_model
SvcConfigureModel(name, cfg, cok, lres) ==
    /\ Ready /\ app = "modal"
    /\ \E g \in {svc_get_model(model_instances, heap, name, cfg, TRUE, cok, lres)} :
          /\ Len(g.heap) <= MaxInst
          /\ model_instances' = g.insts
          /\ recent' = AfterResolve(name, TRUE, cfg, g.ret, g.dropped # 0)
          /\ heap' = Collect(g.heap, instances, model_instances', reqs)
          /\ last' = IF name \notin Names
                     THEN [Obs("configure_model", name) EXCEPT
                              !.outcome = "model_not_available"]
                     ELSE [Resolved(Obs("configure_model", name), TRUE, cfg, g)
                             EXCEPT !.outcome = IF g.ret = 0 THEN "failed_to_configure"
                                                 ELSE "ok"]
    /\ inv' = NoInv
    /\ UNCHANGED <<app, tensors, cuda, instances, reqs>>

\* ------------------------------------------------------------ modal_app.py

\* BackgroundRemovalFunctions._get_model: as ModelRegistry.get_model, on the
\* mapping _model_instances and with the class's device.
fn_get_model(minsts, hp, name, load, cok, lres) ==
    get_model(minsts, hp, name, load, cok, lres)

\* BackgroundRemovalFunctions.remove_background
FnRemoveBackground(name, file, img, flag, cok, lres, net) ==
    /\ Ready /\ app = "functions"
    /\ \E g \in {fn_get_model(model_instances, heap, name, TRUE, cok, lres)},
          im \in {MainConvert(img)} :
         LET o  == [Obs("fn_remove_background", name) EXCEPT !.file = file]
             og == [Resolved(o, TRUE, "na", g) EXCEPT
                       !.rq_ctor = g.ctor, !.rq_loads = g.loads, !.image = img]
         IN IF file # "image"
            THEN /\ last' = [o EXCEPT !.outcome = "failed"]
                 /\ inv' = NoInv
                 /\ UNCHANGED <<heap, model_instances, recent>>
            ELSE /\ Len(g.heap) <= MaxInst
                 /\ model_instances' = g.insts
                 /\ recent' = AfterResolve(name, TRUE, "na", g.ret, FALSE)
                 /\ IF g.ret = 0
                    THEN /\ last' = [og EXCEPT !.outcome = "model_not_available"]
                         /\ inv' = NoInv
                         /\ heap' = Collect(g.heap, instances, model_instances', reqs)
                    ELSE \E res \in {Invoke(g.heap[g.ret], im, flag, lres, net)} :
                            /\ heap' = Collect([g.heap EXCEPT ![g.ret] = res.inst],
                                               instances, model_instances', reqs)
                            /\ inv' = MkInv(g.ret, g.heap[g.ret], flag, im, res)
                            /\ last' = [og EXCEPT
                                          !.rq_loads = g.loads + res.loads,
                                          !.outcome = IF res.ok THEN "ok" ELSE "failed",
                                          !.result = res.out]
    /\ UNCHANGED <<app, tensors, cuda, instances, reqs>>

\* BackgroundRemovalFunctions.list_models: as the registry's listing, with
\* self._get_model(name) (load=True) for each cached name; an exception would
\* turn the whole answer into {"error", "failed"}.
fn_list_models(minsts, hp) == ListFrom(1, minsts, hp, NoListing, TRUE)

FnListModels ==
    /\ Ready /\ app = "functions"
    /\ \E g \in {fn_list_models(model_instances, heap)} :
          /\ Len(g.heap) <= MaxInst
          /\ model_instances' = g.insts
          /\ heap' = Collect(g.heap, instances, model_instances', reqs)
          /\ last' = [Obs("fn_list_models", "none") EXCEPT
                         !.outcome = "ok", !.listing = g.models]
    /\ inv' = NoInv
    /\ UNCHANGED <<app, tensors, cuda, instances, reqs, recent>>

\* BackgroundRemovalFunctions.load_model
FnLoadModel(name, cok, lres) ==
    /\ Ready /\ app = "functions"
    /\ \E g \in {fn_get_model(model_instances, heap, name, TRUE, cok, lres)} :
          /\ Len(g.heap) <= MaxInst
          /\ model_instances' = g.insts
          /\ heap' = Collect(g.heap, instances, model_instances', reqs)
          /\ last' = [Resolved(Obs("fn_load_model", name), TRUE, "na", g) EXCEPT
                         !.outcome = IF g.ret = 0 THEN "not_found" ELSE "ok"]
          /\ recent' = AfterResolve(name, TRUE, "na", g.ret, FALSE)
    /\ inv' = NoInv
    /\ UNCHANGED <<app, tensors, cuda, instances, reqs>>

\* the caller receives the response of the step just taken (the return of the
\* handler or of the method); the observations of that step end with it
Deliver ==
    /\ ~Ready
    /\ last' = NoObs
    /\ inv' = NoInv
    /\ UNCHANGED <<app, tensors, cuda, heap, instances, model_instances, reqs, recent>>

\* ------------------------------------------------------------ specification

Init ==
    /\ app \in {"main", "modal", "functions"}
    /\ cuda \in BOOLEAN
    /\ heap = <<>>
    /\ instances = [n \in Names |-> 0]
    /\ model_instances = [n \in Names |-> 0]
    /\ reqs = [r \in 1..MaxReq |-> IdleReq]
    /\ recent = [n \in Names |-> NoRecent]
    /\ last = NoObs
    /\ inv = NoInv
    /\ tensors = NoTensors

\* The outcomes worth drawing for a constructor / a load that a resolve of
\* `name` on the mapping `insts` would make: one when none would be made.
CtorOutcomes(insts, name) ==
    IF name \in Names /\ insts[name] = 0 THEN BOOLEAN ELSE {TRUE}

LoadOutcomesOf(insts, name, load, cok) ==
    IF name \in Names /\ insts[name] = 0 /\ load /\ cok THEN LoadOutcomes ELSE {"ok"}

\* the outcomes worth drawing for the load RMBG2Model.__call__ makes on entry
EnterOutcomes(m) ==
    IF m.cls = "rmbg2" /\ m.model = "none" THEN LoadOutcomes ELSE {"ok"}

\* the network outcomes worth drawing: only BEN2Model.predict in half precision
\* has a second call
AllOk == [i \in 1..2 |-> TRUE]

NetChoices(name, half) ==
    IF name = "ben2" /\ half THEN NetOutcomes ELSE {n \in NetOutcomes : n[2]}

\* the refinement flags worth drawing for a service call: process_image drops
\* the flag of a model whose __call__ does not name it
SvcFlags(name) == IF AcceptsRefinementArg(name) THEN {"on", "off"} ELSE {"off"}

\* the half_precision entries a caller may send
Configs == {"default", "half", "full"}

\* whether _get_model(name, cfg) would construct an instance
SvcWouldConstruct(name, cfg) ==
    /\ name \in Names
    /\ \/ model_instances[name] = 0
       \/ heap[model_instances[name]].half_precision # FinalHalf(cfg)

SvcCtorOutcomes(name, cfg) == IF SvcWouldConstruct(name, cfg) THEN BOOLEAN ELSE {TRUE}

\* the outcomes worth drawing for the load a service call makes: the one of
\* _get_model when it constructs, else the one of RMBG2Model.__call__ on entry
SvcLoadOutcomesOf(name, cfg, cok) ==
    IF SvcWouldConstruct(name, cfg)
    THEN (IF cok THEN LoadOutcomes ELSE {"ok"})
    ELSE IF name \in Names THEN EnterOutcomes(heap[model_instances[name]]) ELSE {"ok"}

\* the outcomes worth drawing for the load a call of modal_app.py makes
FnLoadOutcomesOf(name, cok) ==
    IF name \notin Names THEN {"ok"}
    ELSE IF model_instances[name] = 0 THEN (IF cok THEN LoadOutcomes ELSE {"ok"})
    ELSE EnterOutcomes(heap[model_instances[name]])

\* sides of the images drawn where the size is what matters: below, at and
\* above the first multiple of 32
MaxSide == 40

SizedImages == [w : 1..MaxSide, h : 1..MaxSide, mode : {"RGB"}]

\* The processing requests for birefnet, on images of every size up to
\* MaxSide, with a constructor, a load and a network that succeed.
SizeNext ==
    \/ Ready /\ app = "main" /\
         \E r \in 1..MaxReq : RbStart(r, "birefnet", "off", TRUE, TRUE, "ok")
    \/ Ready /\ app = "main" /\ \E r \in 1..MaxReq : RbRead(r, "image", "ok")
    \/ Ready /\ app = "main" /\
         \E r \in 1..MaxReq, img \in SizedImages : RbInfer(r, img, AllOk)
    \/ Ready /\ app = "modal" /\
         \E img \in SizedImages :
            SvcProcessImage("birefnet", "image", img, "off", "default", TRUE, "ok", AllOk)
    \/ Deliver

SizeSpec == Init /\ [][SizeNext]_vars

\* the life of one RMBG2Model, with every network the architecture may give
TensorNext ==
    \/ \E half \in BOOLEAN : TConstruct(half)
    \/ \E arch \in Networks : TLoad(arch)
    \/ TPredict
    \/ TReturn
    \/ TUnload

TensorSpec == Init /\ [][TensorNext]_vars

\* the steps of main.py's event loop, and the calls of the GPU service's and
\* of modal_app.py's methods
Next ==
    \/ Ready /\ app = "main" /\
         \E r \in 1..MaxReq, name \in ReqNames, ctype_ok \in BOOLEAN :
           \E flag \in IF ctype_ok THEN {"on", "off"} ELSE {"off"},
              cok \in IF ctype_ok THEN CtorOutcomes(instances, name) ELSE {TRUE} :
             \E lres \in IF ctype_ok THEN LoadOutcomesOf(instances, name, TRUE, cok)
                         ELSE {"ok"} :
                RbStart(r, name, flag, ctype_ok, cok, lres)
    \/ Ready /\ app = "main" /\
         \E r \in 1..MaxReq, file \in {"empty", "bad", "image"} :
           \E lres \in IF file = "image" /\ reqs[r].pc = "read"
                       THEN EnterOutcomes(heap[reqs[r].bg]) ELSE {"ok"} :
              RbRead(r, file, lres)
    \/ Ready /\ app = "main" /\
         \E r \in 1..MaxReq, img \in Images :
           \E net \in IF reqs[r].pc = "infer"
                      THEN NetChoices(reqs[r].model, heap[reqs[r].bg].half_precision)
                      ELSE {AllOk} :
              RbInfer(r, img, net)
    \/ Ready /\ app = "main" /\ ListModels
    \/ Ready /\ app = "main" /\
         \E name \in ReqNames :
           \E cok \in CtorOutcomes(instances, name) :
             \E lres \in LoadOutcomesOf(instances, name, TRUE, cok) :
                LoadModel(name, cok, lres)
    \/ Ready /\ app = "main" /\ \E name \in ReqNames : UnloadModel(name)
    \/ Ready /\ app = "main" /\
         \E name \in ReqNames :
           \E cok \in CtorOutcomes(instances, name) :
             \E lres \in LoadOutcomesOf(instances, name, TRUE, cok) :
                GetModelInfo(name, cok, lres)
    \/ Ready /\ app = "main" /\ Health
    \/ Ready /\ app = "modal" /\
         \E name \in ReqNames, file \in {"empty", "bad", "image"} :
           \E img \in IF file = "image" THEN Images ELSE {NoImage},
              flag \in IF file = "image" THEN SvcFlags(name) ELSE {"off"},
              cfg \in IF file = "image" THEN Configs ELSE {"default"} :
             \E cok \in IF file = "image" THEN SvcCtorOutcomes(name, cfg) ELSE {TRUE} :
               \E lres \in IF file = "image" THEN SvcLoadOutcomesOf(name, cfg, cok)
                           ELSE {"ok"},
                  net \in IF file = "image" THEN NetChoices(name, FinalHalf(cfg))
                         ELSE {AllOk} :
                  SvcProcessImage(name, file, img, flag, cfg, cok, lres, net)
    \/ Ready /\ app = "modal" /\ \E name \in ReqNames : SvcIsModelLoaded(name)
    \/ Ready /\ app = "modal" /\
         \E name \in ReqNames :
           \E cok \in SvcCtorOutcomes(name, "default") : SvcGetModelMetadata(name, cok)
    \/ Ready /\ app = "modal" /\
         \E name \in ReqNames :
           \E cok \in SvcCtorOutcomes(name, "default") :
             \E lres \in SvcLoadOutcomesOf(name, "default", cok) :
                SvcLoadModel(name, cok, lres)
    \/ Ready /\ app = "modal" /\ SvcListModels
    \/ Ready /\ app = "functions" /\
         \E name \in ReqNames, file \in {"bad", "image"} :
           \E img \in IF file = "image" THEN Images ELSE {NoImage},
              flag \in IF file = "image" THEN {"on", "off"} ELSE {"off"},
              cok \in IF file = "image" THEN CtorOutcomes(model_instances, name)
                      ELSE {TRUE} :
             \E lres \in IF file = "image" THEN FnLoadOutcomesOf(name, cok) ELSE {"ok"},
                net \in IF file = "image" /\ name \in Names
                       THEN NetChoices(name, NewInstance(name, Device).half_precision)
                       ELSE {AllOk} :
                FnRemoveBackground(name, file, img, flag, cok, lres, net)
    \/ Ready /\ app = "functions" /\ FnListModels
    \/ Ready /\ app = "functions" /\
         \E name \in ReqNames :
           \E cok \in CtorOutcomes(model_instances, name) :
             \E lres \in FnLoadOutcomesOf(name, cok) : FnLoadModel(name, cok, lres)
    \/ Ready /\ app = "modal" /\
         \E name \in ReqNames, cfg \in Configs :
           \E cok \in SvcCtorOutcomes(name, cfg) :
             \E lres \in SvcLoadOutcomesOf(name, cfg, cok) :
                SvcConfigureModel(name, cfg, cok, lres)
    \/ Deliver

Spec == Init /\ [][Next]_vars
\* ------------------------------------------------------------------ claims

\* the step just taken was a processing request (or a part of one)
IsProcessing == last.op \in {"remove_background", "process_image"}

\* the step just taken resolved a registered name with load = True, the latest
\* resolve with load = True of that name (none unloaded or reconfigured it
\* since) having asked for the same configuration
SecondResolve ==
    /\ last.resolved /\ last.load /\ last.name \in Names
    /\ last.prior.seen /\ last.prior.half = FinalHalf(last.cfg)

\* C1 (as amended): when the earlier of two sequential resolves with load = True
\* of a name returned an instance, the later one returns that very instance,
\* constructs none and calls no load routine.
C1_SecondResolveReturnsCached ==
    SecondResolve /\ last.prior.ret # 0
        => last.ret = last.prior.ret /\ last.ctor = 0 /\ last.loads = 0

\* C1, a case of it: a second resolve that was handed the instance of the first
C1_Witness ==
    SecondResolve /\ last.prior.ret # 0 /\ last.ret = last.prior.ret

\* C1 as stated: the later of any two sequential resolves with load = True
\* returns what the earlier returned, constructs nothing and loads nothing.
C1_AsStated ==
    SecondResolve
        => last.ret = last.prior.ret /\ last.ctor = 0 /\ last.loads = 0

\* the instances of a name that are alive and hold weights
LoadedOf(n) ==
    {i \in 1..Len(heap) : heap[i].cls = n /\ heap[i].model # "none"}

\* C2: in every reachable state at most one instance with loaded weights
\* exists per model name.
C2_AtMostOneLoadedPerName ==
    \A n \in Names : Cardinality(LoadedOf(n)) <= 1

\* C3: an unload never clears the weights of an instance that a processing
\* request has resolved and whose inference has not finished.
C3_NoUnloadUnderRequest ==
    last.op = "unload_model"
        => \A r \in 1..MaxReq :
              reqs[r].pc # "idle" => heap[reqs[r].bg].model # "none"

\* C4: every invoke of an adapter releases the accelerator cache before it
\* returns, whether it returns a result or fails.
C4_ReleasedAfterEveryInvoke ==
    inv.inst # 0 => inv.res.released

\* C5: a prediction that fails in reduced precision is attempted once more at
\* full precision, and never more than twice.
C5_OneRetryAtFullPrecision ==
    inv.inst # 0
        => /\ inv.res.attempts <= 2
           /\ (inv.half /\ ~inv.res.ok /\ inv.res.attempts > 0
                 => inv.res.attempts = 2 /\ inv.res.w_dtype = "fp32")

\* C6: a processing request with empty image bytes is rejected as invalid
\* input, has constructed no instance and has called no load routine.
C6_EmptyRejectedBeforeResolve ==
    IsProcessing /\ last.file = "empty"
        => /\ last.outcome \in {"empty_file", "invalid_image"}
           /\ ~last.resolved /\ last.rq_ctor = 0 /\ last.rq_loads = 0

\* the step just taken was a processing request that names no registered model
UnknownRequest == IsProcessing /\ last.name \notin Names

\* what a request gets that fails the input check made before the model is
\* looked up: the content type (main.py), Image.open (the GPU service)
InputRejected == IF app = "main" THEN "bad_content_type" ELSE "invalid_image"

\* C7 (as amended): a processing request that names an unknown model constructs
\* no instance, calls no load routine and invokes no adapter; its outcome is
\* 'model not available' when it passes the input check that precedes the
\* lookup of the model, and the outcome of that check otherwise.
C7_UnknownModelRejected ==
    UnknownRequest
        => /\ last.ret = 0 /\ last.ctor = 0 /\ last.loads = 0
           /\ last.rq_ctor = 0 /\ last.rq_loads = 0
           /\ inv = NoInv /\ last.result = NoImage
           /\ last.outcome = IF last.resolved THEN "model_not_available"
                              ELSE InputRejected

\* C7, a case of it: a request for an unknown model that reached the lookup
C7_Witness ==
    UnknownRequest /\ last.resolved /\ last.outcome = "model_not_available"

\* C7 as stated: every processing request that names an unknown model ends
\* with 'model not available'.
C7_AsStated ==
    UnknownRequest => last.outcome = "model_not_available"

\* C8: the image a processing request returns has the width and the height of
\* the image that was submitted.
C8_ResultHasSubmittedSize ==
    IsProcessing /\ last.outcome = "ok"
        => last.result.w = last.image.w /\ last.result.h = last.image.h

\* C9: an instance that a resolve with load = True returns has its network
\* present and reports model_loaded = true.
C9_ResolvedInstanceIsLoaded ==
    last.resolved /\ last.load /\ last.ret # 0 => last.ret_loaded

\* the listing of the deployment that is running
Listing ==
    IF app = "main" THEN get_available_models(instances, heap).models
    ELSE svc_list_models(model_instances, heap)

\* the instance mapping of the deployment that is running
Mapping == IF app = "main" THEN instances ELSE model_instances

\* C10: after a resolve with load = False of a registered name that had no
\* cached instance, the name is absent from the instance mapping and the
\* listing reports loaded = false for it.
C10_PlaceholderNotCached ==
    last.resolved /\ ~last.load /\ last.name \in Names /\ last.cached = 0
        => Mapping[last.name] = 0 /\ ~Listing[last.name].loaded

\* C11: an unload of a name that has no cached instance (a second unload in a
\* row, a name never resolved, a name that is not registered) answers as any
\* unload does and changes nothing: not the mapping, not an instance, and the
\* accelerator cache is not emptied.
C11_UnloadAbsentIsNoOp ==
    [][last'.op = "unload_model" /\ last'.cached = 0
          => /\ instances' = instances /\ heap' = heap /\ reqs' = reqs
             /\ ~last'.emptied /\ last'.outcome = "ok"]_vars

\* C11, a case of it: the name was unloaded before (a request in flight still
\* holds the instance whose weights that unload cleared) and is unloaded again
C11_Witness ==
    /\ last.op = "unload_model" /\ last.name \in Names /\ last.cached = 0
    /\ \E r \in 1..MaxReq :
          /\ reqs[r].pc = "read" /\ reqs[r].model = last.name
          /\ heap[reqs[r].bg].model = "none"

\* C12: a resolve whose constructor or load raises returns no instance (None,
\* the exception is caught), leaves the name without a cached instance and
\* every other entry of the mapping as it was; and a resolve of a name that
\* has no cached instance always calls the constructor, so the resolve after
\* a failed one constructs again.
C12_FailedResolveCachesNothing ==
    [][last'.resolved /\ last'.name \in Names
          => /\ last'.err # "none"
                  => /\ last'.ret = 0
                     /\ Mapping'[last'.name] = 0
                     /\ \A n \in Names \ {last'.name} : Mapping'[n] = Mapping[n]
             /\ Mapping[last'.name] = 0 => last'.ctor = 1]_vars

\* C12, a case of it: the latest resolve of the name failed, and this one
\* called the constructor again and returned the new instance
C12_Witness ==
    /\ last.resolved /\ last.name \in Names
    /\ last.prior.seen /\ last.prior.ret = 0
    /\ last.cached = 0 /\ last.ctor = 1 /\ last.err = "none" /\ last.ret # 0

\* the step is a resolve that carries a configuration, of a name whose cached
\* instance has another half_precision than the one requested
Reconfigures ==
    /\ last'.resolved /\ last'.cfg # "na" /\ last'.name \in Names
    /\ Mapping[last'.name] # 0
    /\ heap[Mapping[last'.name]].half_precision # FinalHalf(last'.cfg)

\* the resolve of the step returned an instance it constructed, other than
\* the one cached before, which carries the requested half_precision and is
\* the one cached now
ReturnsReplacement ==
    /\ last'.ret # 0 /\ last'.ret # Mapping[last'.name] /\ last'.ctor = 1
    /\ Mapping'[last'.name] = last'.ret
    /\ heap'[last'.ret].half_precision = FinalHalf(last'.cfg)

\* no instance that lives through the step has its half_precision flag, or
\* the precision of the weights it holds, changed by the step
NoInPlaceChange ==
    \A i \in 1..Len(heap) :
        heap[i] # Freed /\ heap'[i] # Freed
            => /\ heap'[i].half_precision = heap[i].half_precision
               /\ heap[i].model # "none" /\ heap'[i].model # "none"
                     => heap'[i].model = heap[i].model

C14_EntryStable ==
    [][\A n \in Names :
          Mapping[n] # 0
              => \/ Mapping'[n] = Mapping[n]
                 \/ last'.op = "unload_model" /\ last'.name = n
                 \/ last'.op = "configure_model" /\ last'.name = n /\ Reconfigures]_vars

\* the step is a list call
Lists == last'.op \in {"list_models", "svc_list_models", "fn_list_models"}

\* C15: a list call returns one entry for each registered name; the entry's
\* loaded flag is true exactly when the name has a cached instance, its
\* metadata is absent exactly when loaded is false (and is the cached
\* instance's otherwise), and the call leaves the instance mapping and every
\* instance as they were.
C15_ListReportsMapping ==
    [][Lists
          => /\ DOMAIN last'.listing = Names
             /\ \A n \in Names :
                   /\ last'.listing[n].loaded <=> Mapping[n] # 0
                   /\ last'.listing[n].absent <=> ~last'.listing[n].loaded
                   /\ Mapping[n] # 0
                         => last'.listing[n].metadata = metadata(heap[Mapping[n]])
             /\ Mapping' = Mapping /\ heap' = heap /\ reqs' = reqs]_vars

\* C15, a case of it: a list call answered while one name has a cached
\* instance without weights, another a loaded one and a third none
C15_Witness ==
    /\ last.op \in {"list_models", "svc_list_models", "fn_list_models"}
    /\ \E a, b, c \in Names :
          /\ last.listing[a].loaded /\ ~last.listing[a].metadata.model_loaded
          /\ last.listing[b].loaded /\ last.listing[b].metadata.model_loaded
          /\ ~last.listing[c].loaded /\ last.listing[c].absent

\* C16: an adapter invocation carries the refinement flag only when the adapter
\* advertises supports_refinement in its metadata.
C16_FlagOnlyToRefiners ==
    inv.inst # 0 /\ inv.flag # "absent" => supports_refinement(inv.name)

\* C17: whenever the network of an adapter is called, the image its input was
\* made from is an RGB image, whatever the mode of the submitted image.
C17_PredictionSeesRGB ==
    inv.inst # 0 /\ inv.res.attempts > 0 => inv.res.net_mode = "RGB"

\* what an operation that resolves a model answers for a name that is not
\* registered
UnknownOutcome(op) ==
    CASE op \in {"remove_background", "process_image", "fn_remove_background",
                 "get_model_metadata", "configure_model"} -> "model_not_available"
      [] op \in {"load_model", "get_model_info", "fn_load_model"} -> "not_found"
      [] op = "svc_load_model" -> "false"
      [] OTHER -> "none"

\* the answers for an unknown name are the ones UnknownOutcome gives
UnknownOutcomeIsRight ==
    last.name \notin Names /\ UnknownOutcome(last.op) # "none"
        /\ last.outcome \notin {"bad_content_type", "invalid_image", "failed"}
        => last.outcome = UnknownOutcome(last.op)

\* C18: a resolve of a registered name that fails in the constructor or in the
\* load is answered otherwise than the same operation answers a name that is
\* not registered.
C18_FailureNotReportedAsUnknown ==
    last.resolved /\ last.name \in Names /\ last.err # "none"
        => last.outcome # UnknownOutcome(last.op)

\* the step just taken ended a processing request of one of the deployments
ProcessingEnded ==
    /\ last.op \in {"remove_background", "process_image", "fn_remove_background"}
    /\ last.done

\* C19: a processing request ends either with an RGBA image or with a failure
\* value and no image; it never ends by an exception that reaches the caller.
C19_ImageOrStructuredFailure ==
    ProcessingEnded
        => /\ ~last.raised
           /\ last.outcome = "ok" => last.result # NoImage /\ last.result.mode = "RGBA"
           /\ last.outcome # "ok" => last.result = NoImage

SmallestMultiple32(W, w) == W % 32 = 0 /\ W >= w /\ W - 32 < w

\* C21: when birefnet's network is called for a submitted image of w x h, its
\* input has the smallest multiples of 32 that are at least w and h as its
\* sides; the image is resized (by the GPU service before the adapter, by the
\* adapter otherwise) exactly when w or h is not a multiple of 32.
C21_CeilToMultipleOf32 ==
    inv.inst # 0 /\ inv.name = "birefnet" /\ inv.res.attempts > 0
        => /\ SmallestMultiple32(inv.res.net_w, last.image.w)
           /\ SmallestMultiple32(inv.res.net_h, last.image.h)
           /\ SmallestMultiple32(inv.image.w, last.image.w) \/ inv.image.w = last.image.w
           /\ (inv.res.resized \/ inv.image.w # last.image.w \/ inv.image.h # last.image.h)
                 <=> (last.image.w % 32 # 0 \/ last.image.h % 32 # 0)

\* C21, a case of it: a width just above a multiple of 32 and a height that is
\* one, submitted to the adapter through main.py
C21_Witness ==
    /\ app = "main" /\ inv.inst # 0 /\ inv.name = "birefnet" /\ inv.res.attempts > 0
    /\ last.image.w = 33 /\ last.image.h = 32
    /\ inv.res.net_w = 64 /\ inv.res.net_h = 32 /\ inv.res.resized

\* C22: a resolve that replaces the cached instance because another precision
\* is requested triggers the accelerator memory reclamation that unload_model
\* triggers (torch.cuda.empty_cache() where CUDA is available).
C22_ReplacedInstanceIsUnloaded ==
    [][Reconfigures => last'.emptied = cuda]_vars

\* the name n was unloaded while a request held its instance: the request
\* still holds the unloaded instance, and n has had no resolve since
HeldUnloaded(n) ==
    /\ Mapping[n] = 0
    /\ \E r \in 1..MaxReq : reqs[r].pc # "idle" /\ reqs[r].model = n

\* C23 (as amended): an unload of a cached instance clears the instance's
\* network reference, removes the name from the mapping, and the listing then
\* reports loaded = false for it; the next resolve with load = True of the
\* name runs the constructor and, when the constructor and the load succeed,
\* returns a loaded instance that is none of the instances created before.
C23_UnloadThenFreshInstance ==
    [][/\ last'.op = "unload_model" /\ last'.cached # 0
            => /\ heap'[last'.cached].model = "none"
               /\ Mapping'[last'.name] = 0
               /\ ~Listing'[last'.name].loaded
       /\ last'.resolved /\ last'.load /\ last'.name \in Names /\ Mapping[last'.name] = 0
            => /\ last'.ctor = 1
               /\ last'.err # "ctor" => last'.loads = 1
               /\ last'.err = "none"
                     => /\ last'.ret \notin 0..Len(heap)
                        /\ last'.ret_loaded
                        /\ Mapping'[last'.name] = last'.ret]_vars

\* C23, a case of it: a resolve of a name whose unloaded instance a request
\* still holds returned a new, loaded instance
C23_Witness ==
    /\ last.resolved /\ last.load /\ last.name \in Names /\ last.cached = 0
    /\ last.ctor = 1 /\ last.ret # 0 /\ last.ret_loaded
    /\ \E r \in 1..MaxReq :
          /\ reqs[r].pc # "idle" /\ reqs[r].model = last.name
          /\ reqs[r].bg # last.ret /\ heap[reqs[r].bg].model = "none"

\* C23 as stated: the next resolve with load = True after an unload returns a
\* new loaded instance.
C23_AsStated ==
    [][last'.resolved /\ last'.load /\ last'.name \in Names /\ HeldUnloaded(last'.name)
          => last'.ret # 0 /\ last'.ret_loaded]_vars

Flags == {"on", "off", "absent"}

\* invoking the instance m gives the same result and the same instance state
\* whatever the flag, for every image and every course of the load and network
FlagBlind(m) ==
    \A im \in Images, lres \in EnterOutcomes(m), net \in NetChoices(m.cls, m.half_precision) :
        \A f \in Flags : Invoke(m, im, f, lres, net) = Invoke(m, im, "off", lres, net)

\* C25: a ben2 prediction uses the refinement setting of the request that is
\* served (off when the flag is omitted), whatever the instance had stored
\* from earlier requests; invoking an rmbg2 or birefnet instance gives the same
\* outcome whatever the flag.
C25_RefinementFollowsRequest ==
    /\ inv.inst # 0 /\ inv.name = "ben2" /\ inv.res.attempts > 0
          => inv.res.refine = (IF inv.flag = "on" THEN "on" ELSE "off")
    /\ Ready => \A i \in 1..Len(heap) :
                   heap[i] # Freed /\ heap[i].cls # "ben2" => FlagBlind(heap[i])

\* C25, a case of it: a ben2 prediction without refinement on an instance
\* that an earlier request had left with refinement on
C25_Witness ==
    /\ inv.inst # 0 /\ inv.name = "ben2" /\ inv.res.attempts > 0
    /\ inv.refine0 /\ inv.flag = "off" /\ inv.res.refine = "off"

\* C26: a call of the GPU service that names no precision (process_image
\* without half_precision, load_model, get_model_metadata) leaves the cached
\* instance of the name, and that instance's half_precision, as they were.
C26_DefaultConfigKeepsInstance ==
    [][(last'.op \in {"process_image", "svc_load_model", "get_model_metadata"}
          /\ last'.cfg = "default" /\ last'.name \in Names /\ Mapping[last'.name] # 0)
          => /\ Mapping'[last'.name] = Mapping[last'.name]
             /\ heap'[Mapping[last'.name]].half_precision
                    = heap[Mapping[last'.name]].half_precision]_vars

\* C27: no adapter invocation enters predict() while the instance's network
\* is absent.
C27_PredictNeedsNetwork ==
    inv.inst # 0 => inv.res.predicted # "absent"

\* C28: every cached instance that holds weights reports in its metadata the
\* half_precision that its weights have: float16 exactly when the flag is set.
C28_MetadataMatchesWeights ==
    \A n \in Names :
        Mapping[n] # 0 /\ metadata(heap[Mapping[n]]).model_loaded
            => (metadata(heap[Mapping[n]]).half_precision
                   <=> heap[Mapping[n]].model = "fp16")

\* C28, a case of it: a cached half precision instance after an invocation
\* that called its network
C28_Witness ==
    /\ inv.inst # 0 /\ inv.res.attempts > 0 /\ inv.name \in Names
    /\ Mapping[inv.name] = inv.inst
    /\ metadata(heap[inv.inst]).half_precision /\ heap[inv.inst].model = "fp16"

\* C29: every live instance that holds weights, in either precision, returns
\* a result when it is invoked on a valid image and its network succeeds.
C29_GlueNeverFails ==
    Ready => \A i \in 1..Len(heap) :
                heap[i] # Freed /\ heap[i].model # "none"
                    => \A im \in Images, f \in Flags :
                          Invoke(heap[i], im, f, "ok", AllOk).ok

\* C30: when the constructor or the load of the replacement raises in a
\* resolve that requests another precision than the cached instance's, the
\* instance cached before is still the one cached for the name.
C30_FailedReconfigureKeepsInstance ==
    [][(Reconfigures /\ last'.err # "none")
          => Mapping'[last'.name] = Mapping[last'.name]]_vars
====
